---- MODULE Spec2Model ----
(***************************************************************************)
(* Model of createTestStory.py: a script that reads an API token from the  *)
(* command line, builds a fixed story payload, POSTs it to the Clubhouse   *)
(* stories endpoint and prints the token and the response.                 *)
(*                                                                         *)
(* One action per statement of the script.  The script may be invoked      *)
(* several times in a row (NewRun); the requests issued to the endpoint    *)
(* are logged in `service` across invocations.                             *)
(***************************************************************************)
EXTENDS Integers, Sequences, FiniteSets, TLC

\* ---------------------------------------------------------------- bounds
MaxArgs == 2        \* most command-line arguments after the script name
MaxRuns == 3        \* most invocations of the script in one behaviour

\* ------------------------------------------------------- input universes
ScriptName == "createTestStory.py"
Tokens     == {"", "tokA"}
Statuses   == {201, 401, 422, 500}
Headers    == {"Content-Type: application/json"}
Bodies     == {"{id: 1}", "{message: Unauthorized}"}
Responses  == [status : Statuses, headers : Headers, body : Bodies]

\* exceptions requests.post raises on a transport failure; all of them are
\* subclasses of requests.exceptions.RequestException
NetworkErrors == {"requests.exceptions.ConnectionError",
                  "requests.exceptions.ConnectTimeout",
                  "requests.exceptions.ReadTimeout"}

\* names the interpreter resolves without any import
Builtins == {"print", "Exception", "IndexError", "NameError", "OSError",
             "ConnectionError", "TimeoutError"}

RECURSIVE ArgLists(_)
ArgLists(n) ==
    IF n = 0 THEN {<<>>}
    ELSE ArgLists(n - 1) \cup
         {Append(a, t) : a \in {b \in ArgLists(n - 1) : Len(b) = n - 1}, t \in Tokens}

\* sys.argv: the script name followed by the arguments
Argvs == {<<ScriptName>> \o a : a \in ArgLists(MaxArgs)}

\* ------------------------------------------------------ program constants
Endpoint  == "https://api.clubhouse.io/api/v3/stories"
StoryName == "TEST STORY"
ProjectId == 13

Unbound   == "<unbound>"
NotExited == -1

VARIABLES
    invocations,  \* sys.argv of every invocation so far, the last is running
    service,      \* requests issued to the endpoint, over all invocations
    pc,           \* statement the running invocation is at
    names,        \* module namespace of the running invocation
    token,        \* value of `token`
    data,         \* <<>> or <<d>>: value of `data`
    inflight,     \* TRUE while requests.post is blocked on the network
    r,            \* <<>> or <<resp>>: value of `r`
    exc,          \* exceptions being propagated, oldest first
    stdout,       \* lines printed, each a sequence of text pieces
    stderr,       \* exception names of the traceback, oldest first
    exitcode,     \* NotExited while running
    steps         \* statements the running invocation has executed, in order;
                  \* its end is "exit" (normal) or "abort" (unhandled exception)

vars == <<invocations, service, pc, names, token, data, inflight, r, exc,
          stdout, stderr, exitcode, steps>>

run  == Len(invocations)
argv == invocations[run]

\* ------------------------------------------------------------- helpers
\* Python sequence indexing (0-based)
InRange(seq, i) == i >= 0 /\ i < Len(seq)
PyIndex(seq, i) == seq[i + 1]

Digit(d) ==
    CASE d = 0 -> "0" [] d = 1 -> "1" [] d = 2 -> "2" [] d = 3 -> "3"
      [] d = 4 -> "4" [] d = 5 -> "5" [] d = 6 -> "6" [] d = 7 -> "7"
      [] d = 8 -> "8" [] d = 9 -> "9"

\* str(n) for a natural number
RECURSIVE Str(_)
Str(n) == IF n < 10 THEN Digit(n) ELSE Str(n \div 10) \o Digit(n % 10)

\* variant: prints the whole response (status, headers, body)
ReprResponse_raw(resp) == <<Str(resp.status), resp.headers, resp.body>>

\* text print(r) writes for a requests.Response: "<Response [%s]>" % status
ReprResponse(resp) == <<"<Response [", Str(resp.status), "]>">>

\* text print(token) writes
ReprStr(s) == <<s>>

\* the payload literal
Payload == [name |-> StoryName, project_id |-> ProjectId, owner_ids |-> <<>>]

\* variant: the token travels in the body instead of the query string
PostRequest_tokenInBody(tok, d) ==
    [method |-> "POST", url |-> Endpoint, params |-> [token |-> ""],
     data |-> [name |-> tok, project_id |-> d.project_id, owner_ids |-> d.owner_ids]]

\* the request requests.post(url, params=..., data=...) issues
PostRequest(tok, d) ==
    [method |-> "POST", url |-> Endpoint, params |-> [token |-> tok], data |-> d]

\* variant: the exception class is imported too
ImportedNames_withRequestException == {"requests", "sys", "json", "RequestException"}

\* names bound by the import statements
ImportedNames == {"requests", "sys", "json"}

\* name lookup: module globals, then builtins
Resolves(n) == n \in names \cup Builtins

\* requests of the running invocation, in the order issued
RunRequests == SelectSeq(service, LAMBDA e : e.run = run)

\* the first invocation, its interpreter freshly started
Init ==
    /\ invocations \in {<<a>> : a \in Argvs}
    /\ service = <<>>
    /\ pc = "import"
    /\ names = {}
    /\ token = Unbound
    /\ data = <<>>
    /\ inflight = FALSE
    /\ r = <<>>
    /\ exc = <<>>
    /\ stdout = <<>>
    /\ stderr = <<>>
    /\ exitcode = NotExited
    /\ steps = <<>>

\* ------------------------------------------------------------- actions
\* import requests / sys / json
Import ==
    /\ pc = "import"
    /\ names' = names \cup ImportedNames
    /\ pc' = "read_arg"
    /\ steps' = Append(steps, "import")
    /\ UNCHANGED <<invocations, service, token, data, inflight, r, exc,
                   stdout, stderr, exitcode>>

\* variant: reads sys.argv[0], which always exists
ReadArg_argv0 ==
    /\ pc = "read_arg"
    /\ steps' = Append(steps, "read_arg")
    /\ token' = PyIndex(argv, 0)
    /\ names' = names \cup {"token"}
    /\ pc' = "build_payload"
    /\ UNCHANGED <<invocations, service, data, inflight, r, exc, stdout, stderr,
                   exitcode>>

\* token = sys.argv[1]
ReadArg ==
    /\ pc = "read_arg"
    /\ steps' = Append(steps, "read_arg")
    /\ IF InRange(argv, 1)
       THEN /\ token' = PyIndex(argv, 1)
            /\ names' = names \cup {"token"}
            /\ pc' = "build_payload"
            /\ exc' = exc
       ELSE /\ exc' = Append(exc, "IndexError")
            /\ pc' = "exit"
            /\ UNCHANGED <<token, names>>
    /\ UNCHANGED <<invocations, service, data, inflight, r, stdout, stderr,
                   exitcode>>

\* data = {...}
BuildPayload ==
    /\ pc = "build_payload"
    /\ data' = <<Payload>>
    /\ names' = names \cup {"data"}
    /\ pc' = "print_token"
    /\ steps' = Append(steps, "build_payload")
    /\ UNCHANGED <<invocations, service, token, inflight, r, exc, stdout,
                   stderr, exitcode>>

\* variant: the token is not printed
PrintToken_skip ==
    /\ pc = "print_token"
    /\ pc' = "post"
    /\ steps' = Append(steps, "print_token")
    /\ UNCHANGED <<invocations, service, names, token, data, inflight, r, exc,
                   stdout, stderr, exitcode>>

\* print(token)
PrintToken ==
    /\ pc = "print_token"
    /\ stdout' = Append(stdout, ReprStr(token))
    /\ pc' = "post"
    /\ steps' = Append(steps, "print_token")
    /\ UNCHANGED <<invocations, service, names, token, data, inflight, r, exc,
                   stderr, exitcode>>

\* variant: a request already issued by an earlier invocation is not repeated
PostCall_dedup ==
    /\ pc = "post"
    /\ ~inflight
    /\ service' = IF \E k \in DOMAIN service : service[k].req = PostRequest(token, data[1])
                  THEN service
                  ELSE Append(service, [run |-> run, req |-> PostRequest(token, data[1])])
    /\ inflight' = TRUE
    /\ steps' = Append(steps, "send_request")
    /\ UNCHANGED <<invocations, pc, names, token, data, r, exc, stdout, stderr,
                   exitcode>>

\* requests.post(...): the request goes out and the call blocks
PostCall ==
    /\ pc = "post"
    /\ ~inflight
    /\ service' = Append(service, [run |-> run, req |-> PostRequest(token, data[1])])
    /\ inflight' = TRUE
    /\ steps' = Append(steps, "send_request")
    /\ UNCHANGED <<invocations, pc, names, token, data, r, exc, stdout, stderr,
                   exitcode>>

\* variant: an error status raises (as r.raise_for_status() would)
PostReturn_raiseForStatus ==
    /\ pc = "post"
    /\ inflight
    /\ \E resp \in Responses :
          /\ r' = <<resp>>
          /\ IF resp.status >= 400
             THEN exc' = Append(exc, "requests.exceptions.HTTPError") /\ pc' = "except"
             ELSE exc' = exc /\ pc' = "print_r"
    /\ names' = names \cup {"r"}
    /\ inflight' = FALSE
    /\ UNCHANGED <<invocations, service, token, data, stdout, stderr,
                   exitcode, steps>>

\* requests.post returns a response, whatever its status; r = <response>
PostReturn ==
    /\ pc = "post"
    /\ inflight
    /\ \E resp \in Responses : r' = <<resp>>
    /\ names' = names \cup {"r"}
    /\ inflight' = FALSE
    /\ pc' = "print_r"
    /\ UNCHANGED <<invocations, service, token, data, exc, stdout, stderr,
                   exitcode, steps>>

\* variant: a failed request is sent once more
PostRaise_retry ==
    /\ pc = "post"
    /\ inflight
    /\ inflight' = FALSE
    /\ IF Len(RunRequests) < 2
       THEN exc' = exc /\ pc' = pc
       ELSE (\E e \in NetworkErrors : exc' = Append(exc, e)) /\ pc' = "except"
    /\ UNCHANGED <<invocations, service, names, token, data, r, stdout, stderr,
                   exitcode, steps>>

\* requests.post raises a transport error; control goes to the except clause
PostRaise ==
    /\ pc = "post"
    /\ inflight
    /\ \E e \in NetworkErrors : exc' = Append(exc, e)
    /\ inflight' = FALSE
    /\ pc' = "except"
    /\ UNCHANGED <<invocations, service, names, token, data, r, stdout, stderr,
                   exitcode, steps>>

\* variant: prints r.status_code instead of r
PrintResponse_status ==
    /\ pc = "print_r"
    /\ stdout' = Append(stdout, <<Str(r[1].status)>>)
    /\ pc' = "exit"
    /\ steps' = Append(steps, "print_response")
    /\ UNCHANGED <<invocations, service, names, token, data, inflight, r, exc,
                   stderr, exitcode>>

\* print(r)
PrintResponse ==
    /\ pc = "print_r"
    /\ stdout' = Append(stdout, ReprResponse(r[1]))
    /\ pc' = "exit"
    /\ steps' = Append(steps, "print_response")
    /\ UNCHANGED <<invocations, service, names, token, data, inflight, r, exc,
                   stderr, exitcode>>

\* variant: the handler swallows the error and the request is tried again
ExceptClause_retry ==
    /\ pc = "except"
    /\ steps' = Append(steps, "eval_except")
    /\ IF Len(RunRequests) < 2
       THEN exc' = <<>> /\ pc' = "post"
       ELSE exc' = Append(exc, "NameError") /\ pc' = "exit"
    /\ UNCHANGED <<invocations, service, names, token, data, inflight, r,
                   stdout, stderr, exitcode>>

\* except RequestException as err: print(err)
\* The clause's expression is evaluated when an exception reaches it; an
\* unresolved name raises NameError while the first exception is handled.
ExceptClause ==
    /\ pc = "except"
    /\ steps' = Append(steps, "eval_except")
    /\ IF Resolves("RequestException")
       THEN /\ stdout' = Append(stdout, ReprStr(exc[Len(exc)]))
            /\ exc' = <<>>
       ELSE /\ exc' = Append(exc, "NameError")
            /\ stdout' = stdout
    /\ pc' = "exit"
    /\ UNCHANGED <<invocations, service, names, token, data, inflight, r,
                   stderr, exitcode>>

\* end of the module, or an exception nobody handles: the interpreter
\* writes the traceback to stderr and exits 1, else exits 0
Terminate ==
    /\ pc = "exit"
    /\ stderr' = exc
    /\ exitcode' = IF exc = <<>> THEN 0 ELSE 1
    /\ pc' = "done"
    /\ steps' = Append(steps, IF exc = <<>> THEN "exit" ELSE "abort")
    /\ UNCHANGED <<invocations, service, names, token, data, inflight, r, exc,
                   stdout>>

\* the user invokes the script again; nothing of the process survives
NewRun ==
    /\ pc = "done"
    /\ run < MaxRuns
    /\ \E a \in Argvs : invocations' = Append(invocations, a)
    /\ pc' = "import"
    /\ names' = {}
    /\ token' = Unbound
    /\ data' = <<>>
    /\ inflight' = FALSE
    /\ r' = <<>>
    /\ exc' = <<>>
    /\ stdout' = <<>>
    /\ stderr' = <<>>
    /\ exitcode' = NotExited
    /\ steps' = <<>>
    /\ UNCHANGED service

Step ==
    \/ Import
    \/ ReadArg
    \/ BuildPayload
    \/ PrintToken
    \/ PostCall
    \/ PrintResponse
    \/ ExceptClause
    \/ Terminate

Next ==
    \/ Import
    \/ ReadArg
    \/ BuildPayload
    \/ PrintToken
    \/ PostCall
    \/ PostReturn
    \/ PostRaise
    \/ PrintResponse
    \/ ExceptClause
    \/ Terminate
    \/ NewRun

Spec == Init /\ [][Next]_vars

\* the interpreter keeps executing statements; the network owes no answer
\* (requests.post is called without a timeout) and the user owes no new run
FairSpec == Spec /\ WF_vars(Step)

\* ------------------------------------------------------------ properties
TypeOK ==
    /\ invocations \in Seq(Argvs)
    /\ pc \in {"import", "read_arg", "build_payload", "print_token", "post",
               "print_r", "except", "exit", "done"}
    /\ token \in Tokens \cup {Unbound}
    /\ inflight \in BOOLEAN
    /\ exitcode \in {NotExited, 0, 1}

HasArg   == Len(argv) >= 2
Finished == pc = "done"
Has(line, piece) == \E k \in DOMAIN line : line[k] = piece
IsPrefix(s, t) == Len(s) <= Len(t) /\ \A k \in DOMAIN s : s[k] = t[k]
Count(s, x) == Cardinality({k \in DOMAIN s : s[k] = x})

\* the one request an invocation with token t is to issue
TheRequest(t) ==
    [method |-> "POST",
     url    |-> "https://api.clubhouse.io/api/v3/stories",
     params |-> [token |-> t],
     data   |-> [name |-> "TEST STORY", project_id |-> 13, owner_ids |-> <<>>]]

\* C1: an invocation without an argument never sends a POST request and never
\* prints to standard output, at any point of its execution; it ends with an
\* unhandled IndexError and a non-zero exit code.
C1_NoArgumentFails ==
    ~HasArg =>
        /\ RunRequests = <<>>
        /\ stdout = <<>>
        /\ ~inflight
        /\ Finished => (exitcode # 0 /\ stderr = <<"IndexError">>)

C1_Witness ==
    /\ ~HasArg /\ Finished /\ exitcode = 1
    /\ run >= 2 /\ service # <<>>

\* C2: an invocation with token T as first argument has, when it ends, sent
\* exactly one request: a POST to the fixed endpoint with query parameter
\* token = T and the fixed payload; before the call it has sent none.
C2_ExactlyOnePost ==
    HasArg =>
        /\ Len(RunRequests) <= 1
        /\ \A k \in DOMAIN RunRequests : RunRequests[k].req = TheRequest(argv[2])
        /\ (Finished \/ inflight) => Len(RunRequests) = 1

C2_Witness ==
    /\ HasArg /\ Finished /\ Len(RunRequests) = 1
    /\ argv[2] = "tokA" /\ Len(argv) = 3

\* C3: when the request fails with a transport error, the except clause is
\* evaluated and raises NameError on top of it: the handler body prints
\* nothing, both errors go unhandled and the exit code is non-zero.
C3_NetworkErrorUnhandled ==
    (Finished /\ Has(steps, "eval_except")) =>
        /\ Len(stderr) = 2
        /\ stderr[1] \in NetworkErrors
        /\ stderr[2] = "NameError"
        /\ stdout = <<ReprStr(token)>>
        /\ exitcode # 0

C3_Witness ==
    /\ Finished /\ Has(steps, "eval_except")
    /\ stderr = <<"requests.exceptions.ConnectionError", "NameError">>

\* C4: on a 201 response the token and then the representation of the
\* response are printed, the except clause is never evaluated and the exit
\* code is 0.
C4_SuccessPrintsAndExitsZero ==
    (Finished /\ r # <<>> /\ r[1].status = 201) =>
        /\ stdout = << <<argv[2]>>, <<"<Response [", "201", "]>">> >>
        /\ ~Has(steps, "eval_except")
        /\ stderr = <<>>
        /\ exitcode = 0

C4_Witness ==
    Finished /\ r # <<>> /\ r[1].status = 201 /\ exitcode = 0 /\ Len(stdout) = 2

\* C5: whatever status the service returns, the invocation takes the path of
\* a success: the same statements run, the response is printed, no error is
\* raised and the exit code is 0.
C5_StatusNeverInspected ==
    (Finished /\ r # <<>>) =>
        /\ steps = <<"import", "read_arg", "build_payload", "print_token",
                     "send_request", "print_response", "exit">>
        /\ Len(stdout) = 2
        /\ Has(stdout[2], Str(r[1].status))
        /\ exc = <<>>
        /\ exitcode = 0

C5_Witness ==
    Finished /\ r # <<>> /\ r[1].status = 401 /\ exitcode = 0

\* C6: after any number of completed invocations the endpoint has been sent
\* exactly one request per invocation that had an argument, in invocation
\* order, each with that invocation's token; invocations with the same token
\* sent identical requests.
ArgRuns == {i \in 1..run : Len(invocations[i]) >= 2}

C7_RawResponsePrinted ==
    (Finished /\ r # <<>>) =>
        \E n \in DOMAIN stdout :
            /\ Has(stdout[n], Str(r[1].status))
            /\ Has(stdout[n], r[1].headers)
            /\ Has(stdout[n], r[1].body)

\* C7 (amended): on a returned response the line printed for it is the
\* response object's representation "<Response [status]>": it contains the
\* status code and neither the headers nor the body.
C7_ResponseReprPrinted ==
    (Finished /\ r # <<>>) =>
        /\ Len(stdout) = 2
        /\ Has(stdout[2], Str(r[1].status))
        /\ \A n \in DOMAIN stdout :
              ~Has(stdout[n], r[1].headers) /\ ~Has(stdout[n], r[1].body)

C7_Witness ==
    /\ Finished /\ r # <<>> /\ r[1].status = 422
    /\ stdout[2] = <<"<Response [", "422", "]>">>

\* the statements of the script proper, abnormal termination left aside
Linear(s) == SelectSeq(s, LAMBDA x : x \notin {"import", "eval_except", "abort"})

\* C8 (as stated): every execution is a prefix of read arg, build payload,
\* send request, print response, exit, with no other step in between.
C8_FiveStepSequence ==
    IsPrefix(Linear(steps),
             <<"read_arg", "build_payload", "send_request", "print_response", "exit">>)

\* C8 (amended): every execution is a prefix of read arg, build payload,
\* print token, send request, print response, exit, cut short only by
\* abnormal termination (after a failing read arg, or after a failing request
\* and the evaluation of the except clause); each step happens at most once
\* and the response is printed only after the request was sent and returned.
C8_LinearSequence ==
    /\ \/ IsPrefix(steps, <<"import", "read_arg", "build_payload", "print_token",
                            "send_request", "print_response", "exit">>)
       \/ IsPrefix(steps, <<"import", "read_arg", "abort">>)
       \/ IsPrefix(steps, <<"import", "read_arg", "build_payload", "print_token",
                            "send_request", "eval_except", "abort">>)
    /\ Has(steps, "print_response") =>
          /\ r # <<>>
          /\ ~inflight
          /\ Len(RunRequests) = 1
          /\ stdout[Len(stdout)] = ReprResponse(r[1])
    /\ ~Has(steps, "print_response") => \A n \in DOMAIN stdout : stdout[n] = ReprStr(token)

C8_Witness ==
    /\ steps = <<"import", "read_arg", "build_payload", "print_token",
                 "send_request", "print_response", "exit">>
    /\ Finished

\* C9: no invocation sends more than one POST request, whatever its outcome,
\* and once the request has returned or failed the invocation terminates.
C9_AtMostOnePostAndTerminates ==
    /\ [](Len(RunRequests) <= 1)
    /\ [](Finished => Count(steps, "send_request") <= 1)
    /\ (pc \in {"print_r", "except"}) ~> Finished

C9_Witness ==
    /\ Finished /\ Has(steps, "eval_except")
    /\ Len(RunRequests) = 1 /\ exitcode = 1

\* C10: the token is printed before the request is sent: whenever a request
\* has been attempted the first line of standard output is the token, and
\* after a transport error standard output is the token and nothing else.
C10_TokenPrintedBeforePost ==
    /\ (RunRequests # <<>> \/ Has(steps, "send_request")) =>
          (stdout # <<>> /\ stdout[1] = <<argv[2]>>)
    /\ (exc # <<>> /\ exc[1] \in NetworkErrors) =>
          (stdout = << <<argv[2]>> >> /\ r = <<>>)

C10_Witness ==
    /\ Finished /\ exc # <<>> /\ exc[1] \in NetworkErrors
    /\ stdout = << <<"tokA">> >>
    /\ Len(RunRequests) = 1
====
